---- MODULE Spec2Model ----
(***************************************************************************)
(* Family-tree pipeline of kashyapa-gotra-family-tree:                     *)
(*   assignGenerations -> propagateSpouseGenerations -> buildDisplayUnits  *)
(*   -> hierarchical layout (OrgChart.positionNode and                     *)
(*      OrgChartLayout.calculatePositions).                                *)
(* Two implementations of the generation stages exist in the repository:   *)
(*   "app"    src/app.js (identical in the app section of part_001)        *)
(*   "nested" the inline script of src/unnamed/part_000                    *)
(* The page stages of "app" (display units, cards, TreeConnector's paths)  *)
(* are those of part_001, whose renderTree calls buildDisplayUnits; the    *)
(* renderTree of src/app.js renders one card per person and is not         *)
(* modelled.                                                               *)
(***************************************************************************)
EXTENDS Integers, Sequences, FiniteSets, TLC

\* ---------------------------------------------------------------- bounds
\* most records in a document
NumPeople == 3
\* most records plus relationship entries (children, spouses) in a document
MaxDocSize == 6
\* largest generation field a record of the input carries
MaxInputGen == 2
\* most persons of a family forest (every person has at most one recorded parent)
MaxForest == 5
\* most UI events (search input, filter and view buttons) in one page visit
MaxUiEvents == 1
\* most spouses entries in a document that has no children entries
MaxSpouseEntries == 4

\* ---------------------------------------------------------------- data
Ids == 1..(IF MaxForest > NumPeople THEN MaxForest ELSE NumPeople)
\* an id that resolves to no record of the store (a dangling reference)
Absent == 0
\* a record whose generation field is absent (undefined) in the input
Undef == -1
Impls == {"app", "nested"}
\* a search term: blank (''), or the persons whose lower-cased name includes it
Blank == [blank |-> TRUE, hits |-> {}]
\* the data-gen values of the generation filter buttons
Filters == {"all", "1", "5", "9"}

VARIABLES
  impl,        \* which implementation of the generation stages runs
  people,      \* treeData.people: the array of records, as their ids in order
  parents,     \* id -> p.parents
  children,    \* id -> p.children
  spouses,     \* id -> p.spouses
  generation,  \* id -> p.generation (Undef while the field is not set)
  pc,          \* position in the pipeline
  queue,       \* assignGenerations: FIFO of [person, gen]
  visited,     \* assignGenerations: visited ids
  preGen,      \* generation of every person as assignGenerations left it
  changed,     \* propagateSpouseGenerations: the changed flag
  pIdx,        \* propagateSpouseGenerations: index of p in people
  sIdx,        \* propagateSpouseGenerations: index of sid in p.spouses (0: pg not read yet)
  pg,          \* propagateSpouseGenerations: pg, read once per person
  run,         \* how many times propagateSpouseGenerations was called
  units,       \* buildDisplayUnits: the units emitted so far
  used,        \* buildDisplayUnits: the ids already in a unit
  uIdx,        \* buildDisplayUnits: index of p in people
  engine,      \* which layout class runs: "OrgChart" or "OrgChartLayout"
  mobile,      \* window.innerWidth < 768 when the layout object was constructed
  positions,   \* this.positions: person id -> the record stored for it
  stack,       \* the call stack of the layout recursion, innermost call last
  rootIdx,     \* OrgChart.calculatePositions: index of root in roots
  rootX,       \* OrgChart.calculatePositions: currentX
  positionOrder, \* the keys of this.positions in insertion order (Map iteration order)
  numericIds,  \* TRUE when the ids of the document are JSON numbers, FALSE when strings
  cards,       \* the data-person-id of the cards in the tree container, in document order
  connectors,  \* the paths held by TreeConnector's SVG element, in order
  paths,       \* the paths held by the layout engine's SVG element, in order
  first,       \* what the first of two runs over the document produced
  docShape,    \* the shape of data.people in the fetched document: "array" or "map"
  docPeople,   \* the records of the fetched document, as their ids in document order
  docGens,     \* id -> the generation field the record carries in the document
  outcome,     \* how the fetch of family-tree.json will end
  fetches,     \* number of fetch calls issued
  treeDataSet, \* treeData !== null
  message,     \* the empty-state text in the tree container: "error", "no matches" or "none"
  uiEvents,    \* number of UI events handled so far
  renderedNull, \* renderTree has been entered while treeData was null
  rendered,    \* the nested renderer's set of ids already rendered
  shown,       \* the person divs the nested renderer has created, in order
  calls,       \* the unfinished calls of renderNodeRecursive, innermost last
  nRoot,       \* the nested renderer's position in its list of roots
  searchValue, \* els.searchInput.value, trimmed and lower-cased: the persons whose name contains it
  currentFilter, \* currentFilter: the data-gen of the active generation filter button
  term         \* the argument of the renderTree call under way

dataVars == <<impl, people, parents, children, spouses>>
bfsVars == <<queue, visited>>
propVars == <<changed, pIdx, sIdx, pg, run>>
unitVars == <<units, used, uIdx>>
layoutVars == <<engine, mobile, positions, stack, rootIdx, rootX, positionOrder>>
drawVars == <<numericIds, cards, connectors, paths>>
runVars == <<first>>
docVars == <<docShape, docPeople, docGens>>
nestVars == <<rendered, shown, calls, nRoot>>
uiVars == <<searchValue, currentFilter, term>>
fetchVars == <<outcome, fetches, treeDataSet, message, uiEvents, renderedNull>>
vars == <<impl, people, parents, children, spouses, generation, pc, queue, visited, preGen,
          changed, pIdx, sIdx, pg, run, units, used, uIdx,
          engine, mobile, positions, stack, rootIdx, rootX, positionOrder, numericIds, cards, connectors, paths, first,
          docShape, docPeople, docGens, outcome, fetches, treeDataSet, message, uiEvents, renderedNull,
          rendered, shown, calls, nRoot, searchValue, currentFilter, term>>

\* peopleMap (indexPeople): the ids that resolve to a record
peopleMap == {people[k] : k \in DOMAIN people}

Range(s) == {s[k] : k \in DOMAIN s}

RECURSIVE SelectSeqBy(_, _)
\* Array.prototype.filter over a sequence of ids, Keep being the set of ids kept
SelectSeqBy(s, Keep) ==
  IF s = <<>> THEN <<>>
  ELSE IF Head(s) \in Keep THEN <<Head(s)>> \o SelectSeqBy(Tail(s), Keep)
       ELSE SelectSeqBy(Tail(s), Keep)

\* ---------------------------------------------------------------- inputs
NoLinks == [p \in Ids |-> <<>>]

RECURSIVE LinkMaps(_, _)
\* all ways to give the records 1..n lists of references with k entries in
\* total, every entry the id of a record or a dangling id
LinkMaps(n, k) ==
  IF k = 0 THEN {NoLinks}
  ELSE {[f EXCEPT ![p] = Append(f[p], r)] :
          f \in LinkMaps(n, k - 1), p \in 1..n, r \in (1..n) \cup {Absent}}

LinkMapsUpTo(n, k) == UNION {LinkMaps(n, j) : j \in 0..k}

\* the parents lists that go with children lists ch: a person either has no
\* parent recorded, or lists the persons that list it as a child (a dangling id
\* when nobody does)
TrueParents(ch, p) == SelectSeqBy([k \in 1..NumPeople |-> k], {q \in Ids : p \in Range(ch[q])})
RecordedParents(ch, p) == IF TrueParents(ch, p) = <<>> THEN <<Absent>> ELSE TrueParents(ch, p)
ParentMaps(n, ch) ==
  {[p \in Ids |-> IF p \in S THEN RecordedParents(ch, p) ELSE <<>>] : S \in SUBSET (1..n)}

\* every person lists exactly the persons that list it as a child
ConsistentParents(ch) == [p \in Ids |-> TrueParents(ch, p)]

\* generation fields present in the input document: at most one record has one
NoInputGens == [p \in Ids |-> Undef]
InputGens(n) ==
  {NoInputGens} \cup
  {[p \in Ids |-> IF p = q THEN v ELSE Undef] : q \in 1..n, v \in 0..MaxInputGen}

\* generation fields present in the input document: any of the records carry
\* one, all with the same value
SharedInputGens(n) ==
  {[p \in Ids |-> IF p \in S THEN v ELSE Undef] : S \in SUBSET (1..n), v \in 0..MaxInputGen}

\* ---------------------------------------------------------------- assignGenerations
Roots == SelectSeqBy(people, {p \in peopleMap : Len(parents[p]) = 0})

\* AssignStart keeping the visited set of an earlier call
AssignStartKeepingVisited ==
  /\ pc = "loaded"
  /\ queue' = [k \in 1..Len(Roots) |-> [person |-> Roots[k], gen |-> 1]]
  /\ pc' = "bfs"
  /\ UNCHANGED <<visited, drawVars, fetchVars, nestVars, docVars, uiVars, runVars, dataVars, generation, preGen, propVars, unitVars, layoutVars>>

AssignStart ==
  /\ pc = "loaded"
  /\ queue' = [k \in 1..Len(Roots) |-> [person |-> Roots[k], gen |-> 1]]
  /\ visited' = {}
  /\ pc' = "bfs"
  /\ UNCHANGED <<drawVars, fetchVars, nestVars, docVars, uiVars, runVars, dataVars, generation, preGen, propVars, unitVars, layoutVars>>

\* Pushed with the children enqueued two generations down
PushedSkippingOne(person, gen, vis) ==
  LET kept == SelectSeqBy(children[person], peopleMap \ vis)
  IN [k \in 1..Len(kept) |-> [person |-> kept[k], gen |-> gen + 2]]

\* the entries one dequeued person pushes: its children that resolve and are unvisited
Pushed(person, gen, vis) ==
  LET kept == SelectSeqBy(children[person], peopleMap \ vis)
  IN [k \in 1..Len(kept) |-> [person |-> kept[k], gen |-> gen + 1]]

\* SkipVisited without the guard: a dequeued person is assigned again
NeverSkipVisited(person, vis) == FALSE

\* if (... visited.has(person.id)) continue
SkipVisited(person, vis) == person \in vis

\* one iteration of while (queue.length)
BfsStep ==
  /\ pc = "bfs"
  /\ queue # <<>>
  /\ LET person == Head(queue).person
         gen == Head(queue).gen
     IN IF SkipVisited(person, visited)
        THEN /\ queue' = Tail(queue)
             /\ UNCHANGED <<visited, generation>>
        ELSE /\ visited' = visited \cup {person}
             /\ generation' = [generation EXCEPT ![person] = gen]
             /\ queue' = Tail(queue) \o Pushed(person, gen, visited \cup {person})
  /\ UNCHANGED <<drawVars, fetchVars, nestVars, docVars, uiVars, runVars, dataVars, pc, preGen, propVars, unitVars, layoutVars>>

\* src/app.js: if (!Number.isFinite(p.generation)) p.generation = 1
DefaultApp(g) == IF g = Undef THEN 1 ELSE g
\* part_000: if (!p.generation) p.generation = 1
DefaultNested(g) == IF g = Undef \/ g = 0 THEN 1 ELSE g

FillDefaults ==
  /\ pc = "bfs"
  /\ queue = <<>>
  /\ generation' = [p \in Ids |->
        IF p \notin peopleMap THEN generation[p]
        ELSE IF impl = "app" THEN DefaultApp(generation[p]) ELSE DefaultNested(generation[p])]
  /\ preGen' = generation'
  /\ pc' = "assigned"
  /\ UNCHANGED <<drawVars, fetchVars, nestVars, docVars, uiVars, runVars, dataVars, bfsVars, propVars, unitVars, layoutVars>>

\* ---------------------------------------------------------------- propagateSpouseGenerations
\* x.generation || 1
OrOne(g) == IF g = Undef \/ g = 0 THEN 1 ELSE g
Max(a, b) == IF a >= b THEN a ELSE b
RECURSIVE MaxOver(_, _)
\* Math.max(a, ...gens)
MaxOver(a, gens) == IF gens = <<>> THEN a ELSE MaxOver(Max(a, Head(gens)), Tail(gens))

\* let changed = true; while (changed) { changed = false; for (const p of people) ...
PropStart ==
  /\ pc \in {"assigned", "propagated"}
  /\ run < 2
  /\ pc' = "prop"
  /\ run' = run + 1
  /\ changed' = FALSE
  /\ pIdx' = 1
  /\ sIdx' = 0
  /\ UNCHANGED <<drawVars, fetchVars, nestVars, docVars, uiVars, runVars, dataVars, generation, bfsVars, preGen, pg, unitVars, layoutVars>>

\* loadTree calls propagateSpouseGenerations once
PropStartOnce ==
  /\ run = 0
  /\ PropStart

\* the loop variables after the inner loop has dealt with entry j of person i
NextSpouse(i, j) ==
  IF j < Len(spouses[people[i]]) THEN <<i, j + 1>> ELSE <<i + 1, 0>>

\* src/app.js: const pg = p.generation || 1, read before the inner loop
PropEnterApp ==
  /\ pc = "prop"
  /\ impl = "app"
  /\ pIdx <= Len(people)
  /\ sIdx = 0
  /\ pg' = OrOne(generation[people[pIdx]])
  /\ pIdx' = NextSpouse(pIdx, 0)[1]
  /\ sIdx' = NextSpouse(pIdx, 0)[2]
  /\ UNCHANGED <<drawVars, fetchVars, nestVars, docVars, uiVars, runVars, dataVars, generation, pc, bfsVars, preGen, changed, run, unitVars, layoutVars>>

\* SpouseBodyApp raising only p, never the spouse
SpouseBodyOneWay(gens, p, sid, pgRead) ==
  IF sid \notin peopleMap THEN gens
  ELSE LET g == Max(pgRead, OrOne(gens[sid]))
       IN IF gens[p] # g THEN [gens EXCEPT ![p] = g] ELSE gens

\* the generations after the body of the inner loop for p and spouse id sid,
\* with the stale pg: g = Math.max(pg, sg), then p and s are set to g
SpouseBodyApp(gens, p, sid, pgRead) ==
  IF sid \notin peopleMap THEN gens
  ELSE LET g == Max(pgRead, OrOne(gens[sid]))
           afterP == IF gens[p] # g THEN [gens EXCEPT ![p] = g] ELSE gens
       IN IF afterP[sid] # g THEN [afterP EXCEPT ![sid] = g] ELSE afterP

\* src/app.js: one iteration of for (const sid of p.spouses)
PropSpouseApp ==
  /\ pc = "prop"
  /\ impl = "app"
  /\ pIdx <= Len(people)
  /\ sIdx >= 1
  /\ LET p == people[pIdx]
         sid == spouses[p][sIdx]
     IN /\ generation' = SpouseBodyApp(generation, p, sid, pg)
        /\ changed' = (changed \/ generation' # generation)
  /\ pIdx' = NextSpouse(pIdx, sIdx)[1]
  /\ sIdx' = NextSpouse(pIdx, sIdx)[2]
  /\ UNCHANGED <<drawVars, fetchVars, nestVars, docVars, uiVars, runVars, dataVars, pc, bfsVars, preGen, pg, run, unitVars, layoutVars>>

\* part_000: the body of for (const p of people): maxGen over p and all its
\* spouses (a dangling spouse counts 1), then p and every spouse are set to it
PersonBodyNested(gens, p) ==
  LET spouseGens == [k \in 1..Len(spouses[p]) |->
                       IF spouses[p][k] \in peopleMap THEN OrOne(gens[spouses[p][k]]) ELSE 1]
      maxGen == MaxOver(OrOne(gens[p]), spouseGens)
  IN [q \in Ids |->
        IF q \in peopleMap /\ (q = p \/ q \in Range(spouses[p])) THEN maxGen ELSE gens[q]]

PropPersonNested ==
  /\ pc = "prop"
  /\ impl = "nested"
  /\ pIdx <= Len(people)
  /\ generation' = PersonBodyNested(generation, people[pIdx])
  /\ changed' = (changed \/ generation' # generation)
  /\ pIdx' = pIdx + 1
  /\ UNCHANGED <<drawVars, fetchVars, nestVars, docVars, uiVars, runVars, dataVars, pc, bfsVars, preGen, sIdx, pg, run, unitVars, layoutVars>>

\* PropScanEnd with if (changed) in place of while (changed): a single scan
PropScanEndOnce ==
  /\ pc = "prop"
  /\ pIdx > Len(people)
  /\ pc' = "propagated"
  /\ UNCHANGED <<drawVars, fetchVars, nestVars, docVars, uiVars, runVars, dataVars, generation, bfsVars, preGen, changed, pIdx, sIdx, pg, run, unitVars, layoutVars>>

\* end of a scan: while (changed) starts another scan or the function returns
PropScanEnd ==
  /\ pc = "prop"
  /\ pIdx > Len(people)
  /\ IF changed
     THEN /\ changed' = FALSE
          /\ pIdx' = 1
          /\ sIdx' = 0
          /\ pc' = "prop"
     ELSE /\ pc' = "propagated"
          /\ UNCHANGED <<changed, pIdx, sIdx>>
  /\ UNCHANGED <<drawVars, fetchVars, nestVars, docVars, uiVars, runVars, dataVars, generation, bfsVars, preGen, pg, run, unitVars, layoutVars>>

\* ---------------------------------------------------------------- buildDisplayUnits
\* loadTree's renderTree('') after its single propagation, up to the loop of
\* buildDisplayUnits: const used = new Set(); const units = []
UnitsStart ==
  /\ pc = "propagated"
  /\ run = 1
  /\ impl = "app"
  /\ pc' = IF Len(people) = 0 THEN "built" ELSE "units"
  /\ term' = Blank
  /\ units' = <<>>
  /\ used' = {}
  /\ uIdx' = 1
  /\ UNCHANGED <<drawVars, fetchVars, nestVars, docVars, searchValue, currentFilter, runVars, dataVars, generation, bfsVars, preGen, propVars, layoutVars>>

\* IsPair accepting a spouse that does not list p back
IsPairOneSided(p, s, usedIds) ==
  /\ s \in peopleMap
  /\ s \notin usedIds

\* isPair = s && !used.has(s.id) && s.spouses?.length === 1 && s.spouses[0] === p.id
IsPair(p, s, usedIds) ==
  /\ s \in peopleMap
  /\ s \notin usedIds
  /\ Len(spouses[s]) = 1
  /\ spouses[s][1] = p

\* one iteration of for (const p of people); the function returns after the last
UnitStep ==
  /\ pc = "units"
  /\ uIdx <= Len(people)
  /\ LET p == people[uIdx]
     IN IF p \in used
        THEN UNCHANGED <<units, used>>
        ELSE IF Len(spouses[p]) = 1 /\ IsPair(p, spouses[p][1], used)
        THEN LET s == spouses[p][1]
             IN /\ units' = Append(units, [type |-> "couple", a |-> p, b |-> s,
                                           generation |-> Max(OrOne(generation[p]), OrOne(generation[s]))])
                /\ used' = used \cup {p, s}
        ELSE /\ units' = Append(units, [type |-> "single", p |-> p,
                                        generation |-> OrOne(generation[p])])
             /\ used' = used \cup {p}
  /\ uIdx' = uIdx + 1
  /\ pc' = IF uIdx = Len(people) THEN "built" ELSE "units"
  /\ UNCHANGED <<drawVars, fetchVars, nestVars, docVars, uiVars, runVars, dataVars, generation, bfsVars, preGen, propVars, layoutVars>>

\* the loop of buildDisplayUnits from index k on, over the records in the given order
RECURSIVE UnitsOver(_, _, _, _)
UnitsOver(order, k, usedIds, acc) ==
  IF k > Len(order) THEN acc
  ELSE LET p == order[k]
       IN IF p \in usedIds
          THEN UnitsOver(order, k + 1, usedIds, acc)
          ELSE IF Len(spouses[p]) = 1 /\ IsPair(p, spouses[p][1], usedIds)
          THEN LET s == spouses[p][1]
               IN UnitsOver(order, k + 1, usedIds \cup {p, s},
                            Append(acc, [type |-> "couple", a |-> p, b |-> s,
                                         generation |-> Max(OrOne(generation[p]), OrOne(generation[s]))]))
          ELSE UnitsOver(order, k + 1, usedIds \cup {p},
                         Append(acc, [type |-> "single", p |-> p,
                                      generation |-> OrOne(generation[p])]))

\* buildDisplayUnits(people) run to its end over the records in the given order
BuildDisplayUnitsIn(order) == UnitsOver(order, 1, {}, <<>>)

\* the set used when buildDisplayUnits has returned us
UsedBy(us) ==
  UNION {IF us[k].type = "couple" THEN {us[k].a, us[k].b} ELSE {us[k].p} : k \in DOMAIN us}


\* ---------------------------------------------------------------- specifications
\* the state after normalizeData and indexPeople, before assignGenerations:
\* a document of n records
NoRun == [stage |-> "none"]

LoadedRecords(n, ch, pa, sp, gens) ==
  /\ impl \in Impls
  /\ people = [k \in 1..n |-> k]
  /\ children = ch
  /\ parents = pa
  /\ spouses = sp
  /\ generation = gens
  /\ pc = "loaded"
  /\ queue = <<>>
  /\ visited = {}
  /\ preGen = NoInputGens
  /\ changed = FALSE
  /\ pIdx = 0
  /\ sIdx = 0
  /\ pg = 0
  /\ run = 0
  /\ units = <<>>
  /\ used = {}
  /\ uIdx = 0
  /\ engine = "none"
  /\ mobile = FALSE
  /\ positions = <<>>
  /\ stack = <<>>
  /\ rootIdx = 0
  /\ rootX = 0
  /\ positionOrder = <<>>
  /\ cards = <<>>
  /\ connectors = <<>>
  /\ paths = <<>>
  /\ first = NoRun
  /\ docShape = "array"
  /\ docPeople = people
  /\ outcome = "ok"
  /\ fetches = 1
  /\ treeDataSet = TRUE
  /\ message = "none"
  /\ uiEvents = 0
  /\ renderedNull = FALSE
  /\ rendered = {}
  /\ shown = <<>>
  /\ calls = <<>>
  /\ nRoot = 0
  /\ searchValue = Blank
  /\ currentFilter = "all"
  /\ term = Blank
  /\ docGens = generation

\* the same, the ids of the document being strings
Loaded(n, ch, pa, sp, gens) ==
  /\ LoadedRecords(n, ch, pa, sp, gens)
  /\ numericIds = FALSE

\* documents without spouses and without generation fields
InitGen ==
  \E n \in 1..NumPeople : \E ch \in LinkMapsUpTo(n, MaxDocSize - n) :
    \E pa \in ParentMaps(n, ch) :
      Loaded(n, ch, pa, NoLinks, NoInputGens)

\* documents without spouses in which a record may carry a generation field
InitGenIn ==
  \E n \in 1..NumPeople : \E ch \in LinkMapsUpTo(n, MaxDocSize - n) :
    \E pa \in ParentMaps(n, ch) : \E gens \in InputGens(n) :
      Loaded(n, ch, pa, NoLinks, gens)

NextGen == AssignStart \/ BfsStep \/ FillDefaults

SpecGen == InitGen /\ [][NextGen]_vars
SpecGenIn == InitGenIn /\ [][NextGen]_vars
\* the synchronous call runs to its end once started
SpecGenFair == SpecGen /\ WF_vars(NextGen)

\* documents with children and spouses, parents and children lists agreeing,
\* without generation fields
InitProp ==
  \E n \in 1..NumPeople : \E kc \in 0..(MaxDocSize - n) :
    \E ch \in LinkMaps(n, kc) : \E sp \in LinkMapsUpTo(n, MaxDocSize - n - kc) :
      Loaded(n, ch, ConsistentParents(ch), sp, NoInputGens)

NextProp ==
  \/ NextGen
  \/ PropStart \/ PropEnterApp \/ PropSpouseApp \/ PropPersonNested \/ PropScanEnd

SpecProp == InitProp /\ [][NextProp]_vars
\* the loop keeps running while it can
SpecPropFair == SpecProp /\ WF_vars(NextProp)

\* documents with spouses and without children, in which a record may name an
\* unknown parent and may carry a generation field
InitPropIn ==
  \E n \in 1..NumPeople : \E sp \in LinkMapsUpTo(n, MaxDocSize - 2 - n) :
    \E pa \in ParentMaps(n, NoLinks) : \E gens \in SharedInputGens(n) :
      Loaded(n, NoLinks, pa, sp, gens)

SpecPropIn == InitPropIn /\ [][NextProp]_vars

\* ---------------------------------------------------------------- layout engines
Engines == {"OrgChart", "OrgChartLayout"}

\* the configuration set by the two constructors
nodeWidth == IF engine = "OrgChart" THEN (IF mobile THEN 140 ELSE 200)
                                    ELSE (IF mobile THEN 160 ELSE 220)
nodeHeight == IF engine = "OrgChart" THEN 100 ELSE 120
verticalGap == IF engine = "OrgChart" THEN (IF mobile THEN 60 ELSE 100)
                                      ELSE (IF mobile THEN 80 ELSE 120)
horizontalGap == IF engine = "OrgChart" THEN (IF mobile THEN 30 ELSE 50)
                                        ELSE (IF mobile THEN 40 ELSE 60)

\* roots = people.filter(p => (p.generation || 1) === 1)
LayoutRoots == SelectSeqBy(people, {p \in peopleMap : OrOne(generation[p]) = 1})

\* (person.children || []).map(id => peopleMap.get(id)).filter(c => c && !positions.has(c.id))
Unplaced(ids, pos) == SelectSeqBy(ids, peopleMap \ DOMAIN pos)

\* this.positions.set(id, rec)
PositionsSet(pos, id, rec) ==
  [q \in DOMAIN pos \cup {id} |-> IF q = id THEN rec ELSE pos[q]]

\* the key order of a Map after set(id, ...): a new key goes last, a present key stays
KeysAfterSet(order, id) == IF id \in Range(order) THEN order ELSE Append(order, id)

Top == stack[Len(stack)]
Caller == stack[Len(stack) - 1]
OnStack == {stack[k].person : k \in DOMAIN stack}

\* calculatePositions of engine e in a window of width class m, up to the first
\* call for a root: positions.clear(), roots
CalculatePositionsStart(e, m) ==
  /\ pc' = "layout"
  /\ engine' = e
  /\ mobile' = m
  /\ positions' = <<>>
  /\ positionOrder' = <<>>
  /\ IF e = "OrgChart"
     THEN /\ stack' = <<>>
          /\ rootIdx' = 1
          /\ rootX' = 0
     ELSE /\ stack' = IF LayoutRoots = <<>> THEN <<>>
                      ELSE <<[roots |-> LayoutRoots, i |-> 1, currentX |-> 0, y |-> 0]>>
          /\ UNCHANGED <<rootIdx, rootX>>
  /\ UNCHANGED <<numericIds, cards, connectors, uiVars, fetchVars, nestVars, docVars, runVars, dataVars, generation, bfsVars, preGen, propVars, unitVars>>

\* DOMContentLoaded -> initChart(FAMILY_TREE_DATA): orgChart = new OrgChart(treeData);
\* orgChart.render(), over the records of the document as they were written
RenderChart ==
  /\ pc = "loaded"
  /\ \E m \in BOOLEAN : CalculatePositionsStart("OrgChart", m)
  /\ UNCHANGED paths

\* resetView(): if (orgChart) orgChart.render()
ResetView ==
  /\ pc \in {"drawn", "overflow"}
  /\ engine = "OrgChart"
  /\ CalculatePositionsStart("OrgChart", mobile)
  /\ UNCHANGED paths

\* the resize listener of the chart page: nodeWidth, verticalGap and
\* horizontalGap are set anew from window.innerWidth, then orgChart.render()
WindowResize ==
  /\ pc \in {"drawn", "overflow"}
  /\ engine = "OrgChart"
  /\ \E m \in BOOLEAN : CalculatePositionsStart("OrgChart", m)
  /\ UNCHANGED paths

\* new OrgChartLayout(...) and render(peopleMap, treeData) over the records
\* loadTree left and the cards its renderTree rendered, which is the first
\* moment a caller can run: nothing is done for an empty people list; the paths
\* are removed, then positions.clear() and calculatePositions(roots, 0, 0, 0)
LayoutRender ==
  /\ pc = "connected"
  /\ Len(people) > 0
  /\ \E m \in BOOLEAN : CalculatePositionsStart("OrgChartLayout", m)
  /\ paths' = <<>>

\* updateChart(peopleMap, treeData): render(peopleMap, treeData) once more
UpdateChart ==
  /\ pc = "drawn"
  /\ engine = "OrgChartLayout"
  /\ Len(people) > 0
  /\ CalculatePositionsStart("OrgChartLayout", mobile)
  /\ paths' = <<>>

\* OrgChartLayout's resize timer: when the width class changed, the sizes are
\* set anew and init() replaces the SVG element, paths included; the call
\* this.render() that follows has no arguments and returns at once, so the
\* positions stay as they were computed
LayoutResize ==
  /\ pc = "drawn"
  /\ engine = "OrgChartLayout"
  /\ \E m \in BOOLEAN :
       /\ mobile' = m
       /\ paths' = IF m # mobile THEN <<>> ELSE paths
  /\ UNCHANGED <<numericIds, cards, connectors, uiVars, fetchVars, nestVars, docVars, runVars, dataVars, generation, pc, bfsVars, preGen, propVars, unitVars,
                 engine, positions, stack, rootIdx, rootX, positionOrder>>

\* OrgChart.positionNode up to its first recursive call: children, childStartX
PositionNodeEnter(person, x, y) ==
  LET kids == Unplaced(children[person], positions)
      childWidth == Len(kids) * (nodeWidth + horizontalGap) - horizontalGap
  IN [person |-> person, x |-> x, y |-> y, children |-> kids, i |-> 1,
      currentChildX |-> IF Len(kids) > 0 THEN x - (childWidth - nodeWidth) \div 2 ELSE x]

\* OrgChart.calculatePositions: currentX = positionNode(root, currentX, 0); currentX += ...
PositionRoot ==
  /\ pc = "layout"
  /\ engine = "OrgChart"
  /\ stack = <<>>
  /\ rootIdx <= Len(LayoutRoots)
  /\ LET root == LayoutRoots[rootIdx]
     IN IF root \in DOMAIN positions
        THEN /\ rootX' = rootX + nodeWidth + horizontalGap
             /\ rootIdx' = rootIdx + 1
             /\ UNCHANGED stack
        ELSE /\ stack' = <<PositionNodeEnter(root, rootX, 0)>>
             /\ UNCHANGED <<rootIdx, rootX>>
  /\ UNCHANGED <<drawVars, fetchVars, nestVars, docVars, uiVars, runVars, dataVars, generation, pc, bfsVars, preGen, propVars, unitVars,
                 engine, mobile, positions, positionOrder>>

\* OrgChart.positionNode: the call for the next child. A child that is itself
\* an unfinished call has no position yet, and every person met before it in
\* the lists on the way down has one by now, so the same chain of calls repeats
\* without end: the recursion exhausts the call stack.
PositionChild ==
  /\ pc = "layout"
  /\ engine = "OrgChart"
  /\ stack # <<>>
  /\ Top.i <= Len(Top.children)
  /\ LET child == Top.children[Top.i]
     IN IF child \in DOMAIN positions
        THEN /\ stack' = [stack EXCEPT ![Len(stack)] =
                            [@ EXCEPT !.currentChildX = @ + nodeWidth + horizontalGap,
                                      !.i = @ + 1]]
             /\ pc' = pc
        ELSE IF child \in OnStack
        THEN /\ pc' = "overflow"
             /\ UNCHANGED stack
        ELSE /\ stack' = Append(stack, PositionNodeEnter(child, Top.currentChildX,
                                                         Top.y + nodeHeight + verticalGap))
             /\ pc' = pc
  /\ UNCHANGED <<drawVars, fetchVars, nestVars, docVars, uiVars, runVars, dataVars, generation, bfsVars, preGen, propVars, unitVars,
                 engine, mobile, positions, positionOrder, rootIdx, rootX>>

\* nodeX = x; this.positions.set(person.id, {x: nodeX, y, person, children})
Stored == [x |-> Top.x, y |-> Top.y, children |-> Top.children]

\* OrgChart.positionNode: store the position, return x + nodeWidth + horizontalGap;
\* the caller adds nodeWidth + horizontalGap to the returned value
PositionReturn ==
  /\ pc = "layout"
  /\ engine = "OrgChart"
  /\ stack # <<>>
  /\ Top.i > Len(Top.children)
  /\ positions' = PositionsSet(positions, Top.person, Stored)
  /\ positionOrder' = KeysAfterSet(positionOrder, Top.person)
  /\ LET returned == Top.x + nodeWidth + horizontalGap
     IN IF Len(stack) > 1
        THEN /\ stack' = [k \in 1..(Len(stack) - 1) |->
                            IF k = Len(stack) - 1
                            THEN [Caller EXCEPT !.currentChildX = returned + nodeWidth + horizontalGap,
                                                !.i = @ + 1]
                            ELSE stack[k]]
             /\ UNCHANGED <<rootIdx, rootX>>
        ELSE /\ stack' = <<>>
             /\ rootX' = returned + nodeWidth + horizontalGap
             /\ rootIdx' = rootIdx + 1
  /\ UNCHANGED <<drawVars, fetchVars, nestVars, docVars, uiVars, runVars, dataVars, generation, pc, bfsVars, preGen, propVars, unitVars,
                 engine, mobile>>

\* OrgChartLayout.calculatePositions: one iteration of for (const person of roots)
CalculatePositionsVisit ==
  /\ pc = "layout"
  /\ engine = "OrgChartLayout"
  /\ stack # <<>>
  /\ Top.i <= Len(Top.roots)
  /\ LET person == Top.roots[Top.i]
         kids == Unplaced(children[person], positions)
         nodeX == Top.currentX
         nodeY == Top.y
         advanced == [stack EXCEPT ![Len(stack)] =
                        [@ EXCEPT !.currentX = @ + nodeWidth + horizontalGap, !.i = @ + 1]]
         childStartX == nodeX - ((Len(kids) - 1) * (nodeWidth + horizontalGap)) \div 2
     IN /\ positions' = PositionsSet(positions, person, [x |-> nodeX, y |-> nodeY])
        /\ positionOrder' = KeysAfterSet(positionOrder, person)
        /\ stack' = IF Len(kids) > 0
                    THEN Append(advanced, [roots |-> kids, i |-> 1, currentX |-> childStartX,
                                           y |-> nodeY + nodeHeight + verticalGap])
                    ELSE advanced
  /\ UNCHANGED <<drawVars, fetchVars, nestVars, docVars, uiVars, runVars, dataVars, generation, pc, bfsVars, preGen, propVars, unitVars,
                 engine, mobile, rootIdx, rootX>>

\* OrgChartLayout.calculatePositions: the loop over roots is over, the call returns
CalculatePositionsReturn ==
  /\ pc = "layout"
  /\ engine = "OrgChartLayout"
  /\ stack # <<>>
  /\ Top.i > Len(Top.roots)
  /\ stack' = SubSeq(stack, 1, Len(stack) - 1)
  /\ UNCHANGED <<drawVars, fetchVars, nestVars, docVars, uiVars, runVars, dataVars, generation, pc, bfsVars, preGen, propVars, unitVars,
                 engine, mobile, positions, positionOrder, rootIdx, rootX>>

\* calculatePositions has returned into render
LayoutFinish ==
  /\ pc = "layout"
  /\ stack = <<>>
  /\ engine = "OrgChart" => rootIdx > Len(LayoutRoots)
  /\ pc' = "laid"
  /\ UNCHANGED <<drawVars, fetchVars, nestVars, docVars, uiVars, runVars, dataVars, generation, bfsVars, preGen, propVars, unitVars, layoutVars>>

\* ---------------------------------------------------------------- cards and connectors
\* card.setAttribute('data-person-id', ...): a couple card carries partner a's id
CardId(u) == IF u.type = "couple" THEN u.a ELSE u.p

\* passesGenFilter(gen) under currentFilter = f
PassesGenFilter(f, gen) ==
  CASE f = "all" -> TRUE
    [] f = "1" -> gen = 1
    [] f = "5" -> gen <= 5
    [] f = "9" -> gen >= 8
    [] OTHER -> TRUE

\* unitMatchesSearch(unit, term): a couple matches by either name, a single by
\* its own name or the name of a listed spouse that resolves
UnitMatchesSearch(u, t) ==
  \/ t.blank
  \/ IF u.type = "couple"
     THEN u.a \in t.hits \/ u.b \in t.hits
     ELSE \/ u.p \in t.hits
          \/ \E k \in DOMAIN spouses[u.p] :
               spouses[u.p][k] \in peopleMap /\ spouses[u.p][k] \in t.hits

\* groups[g]: the units of generation g in the order of units
UnitsOfGeneration(us, g) == SelectSeq(us, LAMBDA u : u.generation = g)

\* genUnits: nothing when the generation does not pass the filter
ShownUnits(us, f, t, g) ==
  IF PassesGenFilter(f, g)
  THEN SelectSeq(UnitsOfGeneration(us, g), LAMBDA u : UnitMatchesSearch(u, t))
  ELSE <<>>

\* the cards of the generations 1..g, generation by generation
RECURSIVE CardsUpTo(_, _, _, _)
CardsUpTo(us, f, t, g) ==
  IF g = 0 THEN <<>>
  ELSE CardsUpTo(us, f, t, g - 1)
         \o [k \in 1..Len(ShownUnits(us, f, t, g)) |-> CardId(ShownUnits(us, f, t, g)[k])]

HighestGeneration(us) ==
  CHOOSE g \in {us[k].generation : k \in DOMAIN us} :
    \A k \in DOMAIN us : us[k].generation <= g

\* the cards renderTree puts into the tree container for the units us
RenderedCards(us, f, t) ==
  IF us = <<>> THEN <<>> ELSE CardsUpTo(us, f, t, HighestGeneration(us))

\* renderTree after buildDisplayUnits: the container is emptied; when no unit
\* is shown the "No matches" text is written and the function returns without
\* updateConnectors, else the cards are appended
RenderCards ==
  /\ pc = "built"
  /\ cards' = RenderedCards(units, currentFilter, term)
  /\ message' = IF cards' = <<>> THEN "no matches" ELSE "none"
  /\ pc' = IF cards' = <<>> THEN "connected" ELSE "carded"
  /\ UNCHANGED <<numericIds, connectors, paths, outcome, fetches, treeDataSet, uiEvents, renderedNull, nestVars, docVars, uiVars, runVars, dataVars, generation, bfsVars, preGen, propVars, unitVars, layoutVars>>

RECURSIVE Flatten(_)
Flatten(ss) == IF ss = <<>> THEN <<>> ELSE Head(ss) \o Flatten(Tail(ss))

\* const key = [personId, spouseId].sort().join('__')
SpouseKey(a, b) == {a, b}

\* const key = `${parentId}__${childId}`
LineKey(parent, child) == <<parent, child>>

\* the loops "if (drawn.has(key)) continue; drawn.add(key); ...appendChild(path)"
\* over the pairs in the order met
RECURSIVE DrawOnce(_, _, _, _)
DrawOnce(pairs, drawn, acc, kind) ==
  IF pairs = <<>> THEN acc
  ELSE LET a == Head(pairs)[1]
           b == Head(pairs)[2]
           key == IF kind = "spouse" THEN SpouseKey(a, b) ELSE LineKey(a, b)
           path == IF kind = "spouse" THEN [type |-> "spouse", a |-> a, b |-> b]
                   ELSE [type |-> "parent-child", parent |-> a, child |-> b]
       IN IF key \in drawn
          THEN DrawOnce(Tail(pairs), drawn, acc, kind)
          ELSE DrawOnce(Tail(pairs), drawn \cup {key}, Append(acc, path), kind)

\* the keys of cardPositions are the attribute values card.getAttribute('data-person-id'),
\* which are strings: the text of the id. getPerson(personId) = window.peopleMap.get(personId)
\* finds the person when the store's keys are these strings, and nothing when
\* they are numbers.
FoundCards(cs) == IF numericIds THEN <<>> ELSE cs

\* this.cardPositions.has(id) for an id taken from a person's list
CardedIds(cs) == IF numericIds THEN {} ELSE Range(cs)

\* drawSpouseConnectors: every carded person with each listed spouse that has a card
SpousePairs(cs) ==
  Flatten([k \in 1..Len(FoundCards(cs)) |->
    LET kept == SelectSeqBy(spouses[FoundCards(cs)[k]], CardedIds(cs))
    IN [j \in 1..Len(kept) |-> <<FoundCards(cs)[k], kept[j]>>]])

\* drawParentChildConnectors: every carded child with each listed parent that has a card
ParentChildPairs(cs) ==
  Flatten([k \in 1..Len(FoundCards(cs)) |->
    LET kept == SelectSeqBy(parents[FoundCards(cs)[k]], CardedIds(cs))
    IN [j \in 1..Len(kept) |-> <<kept[j], FoundCards(cs)[k]>>]])

\* updateConnectors: indexCards over the cards cs, then render: the paths are
\* removed, then drawSpouseConnectors() and drawParentChildConnectors()
UpdatedConnectors(cs) ==
  DrawOnce(SpousePairs(cs), {}, <<>>, "spouse")
    \o DrawOnce(ParentChildPairs(cs), {}, <<>>, "parent-child")

\* renderTree: if (treeConnector) treeConnector.updateConnectors(peopleMap)
TreeConnectorRender ==
  /\ pc = "carded"
  /\ pc' = "connected"
  /\ connectors' = UpdatedConnectors(cards)
  /\ UNCHANGED <<numericIds, cards, paths, fetchVars, nestVars, docVars, uiVars, runVars, dataVars, generation, bfsVars, preGen, propVars, unitVars, layoutVars>>

\* a listener's call renderTree(t) under currentFilter = f, run to its end:
\* treeData.people throws a TypeError while treeData is null
RenderTree(f, t) ==
  IF ~treeDataSet
  THEN /\ renderedNull' = TRUE
       /\ UNCHANGED <<unitVars, term, cards, connectors, message>>
  ELSE LET us == BuildDisplayUnitsIn(people)
           cs == RenderedCards(us, f, t)
       IN /\ units' = us
          /\ used' = UsedBy(us)
          /\ uIdx' = Len(people) + 1
          /\ term' = t
          /\ cards' = cs
          /\ message' = IF cs = <<>> THEN "no matches" ELSE "none"
          /\ connectors' = IF cs = <<>> THEN connectors ELSE UpdatedConnectors(cs)
          /\ UNCHANGED renderedNull

\* the values the search box can hold, trimmed and lower-cased
SearchValues == {Blank} \cup {[blank |-> FALSE, hits |-> H] : H \in SUBSET Range(docPeople)}

\* a listener wired by wireUI runs: the search box holds v and currentFilter
\* is f before it calls renderTree(t). loadTree runs without interruption
\* between two awaits, so an event is handled only while it is suspended or
\* after it has ended, be it before or after a layout render. renderTree
\* replaces the cards and has TreeConnector draw anew; the layout object keeps
\* its positions and its SVG element keeps its paths.
Handled(v, f, t) ==
  /\ pc \in {"fetching", "parsing", "failed", "connected", "drawn"}
  /\ uiEvents < MaxUiEvents
  /\ uiEvents' = uiEvents + 1
  /\ searchValue' = v
  /\ currentFilter' = f
  /\ RenderTree(f, t)
  /\ UNCHANGED <<outcome, fetches, treeDataSet, numericIds, paths, nestVars, docVars, runVars, dataVars, generation, pc,
                 bfsVars, preGen, propVars, layoutVars>>

\* 'input' on the search box: renderTree(els.searchInput.value.trim().toLowerCase())
SearchInput == \E v \in SearchValues : Handled(v, currentFilter, v)

\* 'click' on a generation filter button: currentFilter = dataset.gen; renderTree(...)
GenFilterClick == \E f \in Filters : Handled(searchValue, f, searchValue)

\* expandAllBtn: setFilterButton('all'); renderTree(...)
ExpandAll == Handled(searchValue, "all", searchValue)

\* collapseBtn: setFilterButton('9'); renderTree(...)
Collapse == Handled(searchValue, "9", searchValue)

\* resetBtn: els.searchInput.value = ''; setFilterButton('all'); renderTree('')
Reset == Handled(Blank, "all", Blank)

\* the persons whose children drawConnections walks, in its order:
\* OrgChart iterates this.positions, OrgChartLayout iterates allPeople
PositionedParents ==
  IF engine = "OrgChart" THEN positionOrder ELSE SelectSeqBy(people, DOMAIN positions)

\* every such person with each listed child that has a position
PositionedPairs ==
  Flatten([k \in 1..Len(PositionedParents) |->
    LET kept == SelectSeqBy(children[PositionedParents[k]], DOMAIN positions)
    IN [j \in 1..Len(kept) |-> <<PositionedParents[k], kept[j]>>]])

\* render: drawConnections after calculatePositions
DrawConnections ==
  /\ pc = "laid"
  /\ pc' = "drawn"
  /\ paths' = DrawOnce(PositionedPairs, {}, <<>>, "parent-child")
  /\ UNCHANGED <<numericIds, cards, connectors, fetchVars, nestVars, docVars, uiVars, runVars, dataVars, generation, bfsVars, preGen, propVars, unitVars, layoutVars>>

\* documents with spouses only, run through loadTree of part_001 to its end
InitUnits ==
  \E n \in 1..NumPeople : \E sp \in LinkMapsUpTo(n, MaxSpouseEntries) :
    /\ Loaded(n, NoLinks, NoLinks, sp, NoInputGens)
    /\ impl = "app"

\* loadTree from assignGenerations on: the single propagation, then
\* renderTree(''): buildDisplayUnits, the cards, TreeConnector's paths
NextUnits ==
  \/ AssignStart \/ BfsStep \/ FillDefaults
  \/ PropStartOnce \/ PropEnterApp \/ PropSpouseApp \/ PropScanEnd
  \/ UnitsStart \/ UnitStep \/ RenderCards \/ TreeConnectorRender

SpecUnits == InitUnits /\ [][NextUnits]_vars

\* the documents the chart page is opened on: records with children lists,
\* any of them carrying a generation field
ChartGens(n) ==
  {[p \in Ids |-> IF p \in 1..n THEN g[p] ELSE Undef] : g \in [1..n -> {Undef} \cup (1..MaxInputGen)]}

InitChart ==
  \E n \in 1..NumPeople : \E ch \in LinkMapsUpTo(n, MaxDocSize - n) : \E gens \in ChartGens(n) :
    /\ Loaded(n, ch, ConsistentParents(ch), NoLinks, gens)
    /\ impl = "app"

\* the chart page: initChart, then resetView and window resizes
NextChart ==
  \/ RenderChart \/ ResetView \/ WindowResize
  \/ PositionRoot \/ PositionChild \/ PositionReturn \/ LayoutFinish
  \/ DrawConnections

SpecChart == InitChart /\ [][NextChart]_vars

\* documents run through loadTree to its end and then laid out by OrgChartLayout
InitLayout ==
  \E n \in 1..NumPeople : \E kc \in 0..(MaxDocSize - n) : \E ch \in LinkMaps(n, kc) :
    \E sp \in LinkMapsUpTo(n, MaxDocSize - n - kc) :
      /\ Loaded(n, ch, ConsistentParents(ch), sp, NoInputGens)
      /\ impl = "app"

NextLayout ==
  \/ AssignStart \/ BfsStep \/ FillDefaults
  \/ PropStartOnce \/ PropEnterApp \/ PropSpouseApp \/ PropScanEnd
  \/ UnitsStart \/ UnitStep \/ RenderCards \/ TreeConnectorRender
  \/ LayoutRender \/ UpdateChart \/ LayoutResize
  \/ CalculatePositionsVisit \/ CalculatePositionsReturn \/ LayoutFinish
  \/ DrawConnections

SpecLayout == InitLayout /\ [][NextLayout]_vars

\* the family forests of n persons: person p is a root (0) or the child of one
\* person with a smaller id
ForestParentOf(n) == {par \in [1..n -> 0..(n - 1)] : \A p \in 1..n : par[p] < p}
IdsInOrder(n) == [k \in 1..n |-> k]
ForestChildren(n, par) ==
  [p \in Ids |-> IF p \in 1..n THEN SelectSeqBy(IdsInOrder(n), {c \in 1..n : par[c] = p}) ELSE <<>>]
ForestParents(n, par) ==
  [p \in Ids |-> IF p \in 1..n /\ par[p] # 0 THEN <<par[p]>> ELSE <<>>]

\* well-formed documents without spouses: forests run through loadTree and
\* then laid out by OrgChartLayout
InitForest ==
  \E n \in 1..MaxForest : \E par \in ForestParentOf(n) :
    /\ Loaded(n, ForestChildren(n, par), ForestParents(n, par), NoLinks, NoInputGens)
    /\ impl = "app"

NextForest ==
  \/ AssignStart \/ BfsStep \/ FillDefaults
  \/ PropStartOnce \/ PropEnterApp \/ PropScanEnd
  \/ UnitsStart \/ UnitStep \/ RenderCards \/ TreeConnectorRender
  \/ LayoutRender \/ CalculatePositionsVisit \/ CalculatePositionsReturn \/ LayoutFinish
  \/ DrawConnections

SpecForest == InitForest /\ [][NextForest]_vars

\* documents whose ids are strings or numbers, run through loadTree
InitDraw ==
  \E n \in 1..NumPeople : \E kc \in 0..(MaxDocSize - n) : \E ch \in LinkMaps(n, kc) :
    \E sp \in LinkMapsUpTo(n, MaxDocSize - n - kc) :
      /\ LoadedRecords(n, ch, ConsistentParents(ch), sp, NoInputGens)
      /\ numericIds \in BOOLEAN
      /\ impl = "app"

\* loadTree to its end, rendering cards with TreeConnector's paths; afterwards
\* the records and cards laid out and connected by OrgChartLayout
NextDraw ==
  \/ AssignStart \/ BfsStep \/ FillDefaults
  \/ PropStartOnce \/ PropEnterApp \/ PropSpouseApp \/ PropScanEnd
  \/ UnitsStart \/ UnitStep \/ RenderCards \/ TreeConnectorRender
  \/ LayoutRender \/ CalculatePositionsVisit \/ CalculatePositionsReturn \/ LayoutFinish
  \/ DrawConnections

SpecDraw == InitDraw /\ [][NextDraw]_vars

\* ---------------------------------------------------------------- loader
Shapes == {"array", "map"}

\* const people = Array.isArray(data?.people) ? data.people : []
NormalizedPeople(shape, records) == IF shape = "array" THEN records ELSE <<>>

\* loadTree: treeData = normalizeData(data); indexPeople(treeData.people): the
\* records are the ones just parsed, with the fields the document gives them
LoadDocument ==
  /\ pc = "fetched"
  /\ people' = NormalizedPeople(docShape, docPeople)
  /\ generation' = docGens
  /\ run' = 0
  /\ treeDataSet' = TRUE
  /\ pc' = "loaded"
  /\ UNCHANGED <<outcome, fetches, message, uiEvents, renderedNull, nestVars, docVars, uiVars, drawVars, runVars, impl, parents, children, spouses,
                 bfsVars, preGen, changed, pIdx, sIdx, pg, unitVars, layoutVars>>

\* ---------------------------------------------------------------- fetch and UI events
\* fetch rejects, the status is not 2xx, res.json() rejects, or all goes well
Outcomes == {"network", "status", "unparsable", "ok"}

\* the response arrives and is used although the status is not 2xx
FetchRespondsIgnoringStatus ==
  /\ pc = "fetching"
  /\ IF outcome = "network"
     THEN /\ pc' = "failed"
          /\ message' = "error"
          /\ cards' = <<>>
     ELSE /\ pc' = "fetched"
          /\ UNCHANGED <<message, cards>>
  /\ UNCHANGED <<outcome, fetches, treeDataSet, uiEvents, renderedNull, nestVars, docVars, uiVars, numericIds, connectors, paths, runVars,
                 dataVars, generation, bfsVars, preGen, propVars, unitVars, layoutVars>>

\* loadTree resumes after await fetch(...): a rejected fetch or !res.ok throws
\* into the catch block, which logs and replaces the content of the tree
\* container by the error message
FetchResponds ==
  /\ pc = "fetching"
  /\ IF outcome \in {"network", "status"}
     THEN /\ pc' = "failed"
          /\ message' = "error"
          /\ cards' = <<>>
     ELSE /\ pc' = "parsing"
          /\ UNCHANGED <<message, cards>>
  /\ UNCHANGED <<outcome, fetches, treeDataSet, uiEvents, renderedNull, nestVars, docVars, uiVars, numericIds, connectors, paths, runVars,
                 dataVars, generation, bfsVars, preGen, propVars, unitVars, layoutVars>>

\* loadTree resumes after await res.json(): a rejection ends in the catch block
BodyParsed ==
  /\ pc = "parsing"
  /\ IF outcome = "unparsable"
     THEN /\ pc' = "failed"
          /\ message' = "error"
          /\ cards' = <<>>
     ELSE /\ pc' = "fetched"
          /\ UNCHANGED <<message, cards>>
  /\ UNCHANGED <<outcome, fetches, treeDataSet, uiEvents, renderedNull, nestVars, docVars, uiVars, numericIds, connectors, paths, runVars,
                 dataVars, generation, bfsVars, preGen, propVars, unitVars, layoutVars>>

\* DOMContentLoaded has run wireUI() and loadTree() up to its first await
InitFetch ==
  \E n \in 1..NumPeople : \E kc \in 0..(MaxDocSize - 1 - n) : \E ch \in LinkMaps(n, kc) :
    \E sp \in LinkMapsUpTo(n, MaxDocSize - 1 - n - kc) : \E o \in Outcomes :
      /\ impl = "app"
      /\ docShape = "array"
      /\ docPeople = [k \in 1..n |-> k]
      /\ people = <<>>
      /\ children = ch
      /\ parents = ConsistentParents(ch)
      /\ spouses = sp
      /\ generation = NoInputGens
      /\ pc = "fetching"
      /\ queue = <<>>
      /\ visited = {}
      /\ preGen = NoInputGens
      /\ changed = FALSE
      /\ pIdx = 0
      /\ sIdx = 0
      /\ pg = 0
      /\ run = 0
      /\ units = <<>>
      /\ used = {}
      /\ uIdx = 0
      /\ engine = "none"
      /\ mobile = FALSE
      /\ positions = <<>>
      /\ stack = <<>>
      /\ rootIdx = 0
      /\ rootX = 0
      /\ positionOrder = <<>>
      /\ numericIds = FALSE
      /\ cards = <<>>
      /\ connectors = <<>>
      /\ paths = <<>>
      /\ first = NoRun
      /\ outcome = o
      /\ fetches = 1
      /\ treeDataSet = FALSE
      /\ message = "none"
      /\ uiEvents = 0
      /\ renderedNull = FALSE
      /\ rendered = {}
      /\ shown = <<>>
      /\ calls = <<>>
      /\ nRoot = 0
      /\ searchValue = Blank
      /\ currentFilter = "all"
      /\ term = Blank
      /\ docGens = generation

NextFetch ==
  \/ FetchResponds \/ BodyParsed \/ LoadDocument
  \/ AssignStart \/ BfsStep \/ FillDefaults
  \/ PropStartOnce \/ PropEnterApp \/ PropSpouseApp \/ PropScanEnd
  \/ UnitsStart \/ UnitStep \/ RenderCards \/ TreeConnectorRender
  \/ SearchInput \/ GenFilterClick \/ ExpandAll \/ Collapse \/ Reset

SpecFetch == InitFetch /\ [][NextFetch]_vars

\* a second call of loadTree in the same page, up to its first await: a second
\* fetch of the same document is issued; until it is parsed every module-level
\* object is what the first call left behind
LoadAgain ==
  /\ pc \in {"connected", "drawn"}
  /\ first = NoRun
  /\ first' = [stage |-> pc, generation |-> generation, units |-> units,
               positions |-> positions, engine |-> engine, mobile |-> mobile]
  /\ pc' = "fetching"
  /\ fetches' = fetches + 1
  /\ \E o \in Outcomes : outcome' = o
  /\ UNCHANGED <<treeDataSet, message, uiEvents, renderedNull, nestVars, docVars, uiVars, drawVars, dataVars, generation,
                 bfsVars, preGen, propVars, unitVars, layoutVars>>

\* documents with few children entries and few spouses entries, run through
\* the whole pipeline twice
InitTwice ==
  \E n \in 1..NumPeople : \E ch \in LinkMapsUpTo(n, MaxDocSize - 2 - NumPeople) :
    \E sp \in LinkMapsUpTo(n, MaxDocSize - 2 - NumPeople) :
      /\ Loaded(n, ch, ConsistentParents(ch), sp, NoInputGens)
      /\ impl = "app"

\* the same with the listeners of the page and a second call of loadTree
NextTwice ==
  \/ NextDraw
  \/ SearchInput \/ GenFilterClick \/ ExpandAll \/ Collapse \/ Reset
  \/ LoadAgain \/ FetchResponds \/ BodyParsed \/ LoadDocument

SpecTwice == InitTwice /\ [][NextTwice]_vars

\* ---------------------------------------------------------------- nested-list renderer
RECURSIVE SortedById(_)
\* ids in ascending order: roots.sort((a, b) => a.id - b.id)
SortedById(S) ==
  IF S = {} THEN <<>>
  ELSE LET least == CHOOSE x \in S : \A y \in S : x <= y
       IN <<least>> \o SortedById(S \ {least})

\* roots = people.filter(p => p.parents.length === 0), sorted by id
NestedRoots == SortedById(Range(Roots))

RECURSIVE SpousesShownAgain(_, _, _)
\* SpousesShown without the test rendered.has(spouseId)
SpousesShownAgain(ids, done, acc) ==
  IF ids = <<>> THEN acc
  ELSE IF Head(ids) \notin peopleMap \/ Head(ids) \in Range(acc)
       THEN SpousesShownAgain(Tail(ids), done, acc)
       ELSE SpousesShownAgain(Tail(ids), done \cup {Head(ids)}, Append(acc, Head(ids)))

RECURSIVE SpousesShown(_, _, _)
\* person.spouses.forEach: the spouses appended to the capsule, given the ids
\* rendered so far; a rendered or unknown spouse is skipped, and so is one
\* whose div is already in this capsule
SpousesShown(ids, done, acc) ==
  IF ids = <<>> THEN acc
  ELSE IF Head(ids) \in done \/ Head(ids) \notin peopleMap \/ Head(ids) \in Range(acc)
       THEN SpousesShown(Tail(ids), done, acc)
       ELSE SpousesShown(Tail(ids), done \cup {Head(ids)}, Append(acc, Head(ids)))

\* the capsule of person: its own div, then the divs of the spouses shown
Capsule(person) ==
  LET partners == SpousesShown(spouses[person], rendered \cup {person}, <<>>)
  IN <<[person |-> person, as |-> "main"]>>
     \o [k \in 1..Len(partners) |-> [person |-> partners[k], as |-> "spouse"]]

\* renderNodeRecursive up to its loop over the children
RenderNodeEnter(person) ==
  /\ rendered' = rendered \cup {person} \cup {Capsule(person)[k].person : k \in DOMAIN Capsule(person)}
  /\ shown' = shown \o Capsule(person)
  /\ calls' = Append(calls, [person |-> person, i |-> 1,
                              children |-> SelectSeqBy(children[person], peopleMap)])

\* renderTree of the inline script: the container is emptied, rendered = new Set()
NestedRenderStart ==
  /\ pc = "propagated"
  /\ run = 1
  /\ impl = "nested"
  /\ pc' = "nesting"
  /\ rendered' = {}
  /\ shown' = <<>>
  /\ calls' = <<>>
  /\ nRoot' = 1
  /\ UNCHANGED <<fetchVars, docVars, uiVars, drawVars, runVars, dataVars, generation, bfsVars, preGen,
                 propVars, unitVars, layoutVars>>

\* renderTree: one iteration of for (const root of roots)
NestedRoot ==
  /\ pc = "nesting"
  /\ calls = <<>>
  /\ nRoot <= Len(NestedRoots)
  /\ IF NestedRoots[nRoot] \in rendered
     THEN /\ nRoot' = nRoot + 1
          /\ UNCHANGED <<rendered, shown, calls>>
     ELSE /\ RenderNodeEnter(NestedRoots[nRoot])
          /\ UNCHANGED nRoot
  /\ UNCHANGED <<fetchVars, docVars, uiVars, drawVars, runVars, dataVars, generation, pc, bfsVars, preGen,
                 propVars, unitVars, layoutVars>>

\* renderNodeRecursive: one iteration of children.forEach
NestedChild ==
  /\ pc = "nesting"
  /\ calls # <<>>
  /\ calls[Len(calls)].i <= Len(calls[Len(calls)].children)
  /\ LET child == calls[Len(calls)].children[calls[Len(calls)].i]
     IN IF child \in rendered
        THEN /\ calls' = [calls EXCEPT ![Len(calls)].i = @ + 1]
             /\ UNCHANGED <<rendered, shown>>
        ELSE RenderNodeEnter(child)
  /\ UNCHANGED <<nRoot, fetchVars, docVars, uiVars, drawVars, runVars, dataVars, generation, pc, bfsVars,
                 preGen, propVars, unitVars, layoutVars>>

\* renderNodeRecursive returns its li to the caller's loop
NestedReturn ==
  /\ pc = "nesting"
  /\ calls # <<>>
  /\ calls[Len(calls)].i > Len(calls[Len(calls)].children)
  /\ IF Len(calls) > 1
     THEN /\ calls' = [k \in 1..(Len(calls) - 1) |->
                         IF k = Len(calls) - 1 THEN [calls[k] EXCEPT !.i = @ + 1] ELSE calls[k]]
          /\ UNCHANGED nRoot
     ELSE /\ calls' = <<>>
          /\ nRoot' = nRoot + 1
  /\ UNCHANGED <<rendered, shown, fetchVars, docVars, uiVars, drawVars, runVars, dataVars, generation, pc,
                 bfsVars, preGen, propVars, unitVars, layoutVars>>

\* renderTree: the chart is appended to the container
NestedFinish ==
  /\ pc = "nesting"
  /\ calls = <<>>
  /\ nRoot > Len(NestedRoots)
  /\ pc' = "nested"
  /\ UNCHANGED <<nestVars, fetchVars, docVars, uiVars, drawVars, runVars, dataVars, generation, bfsVars,
                 preGen, propVars, unitVars, layoutVars>>

\* documents with children and spouses, in which either every record lists its
\* parents or none does (normalizeData: p.parents = p.parents || []), run
\* through the inline script's loadTree and renderTree
InitNested ==
  \E n \in 1..NumPeople : \E kc \in 0..(MaxDocSize - 1 - n) : \E ch \in LinkMaps(n, kc) :
    \E sp \in LinkMapsUpTo(n, MaxDocSize - 1 - n - kc) : \E pa \in {ConsistentParents(ch), NoLinks} :
      /\ Loaded(n, ch, pa, sp, NoInputGens)
      /\ impl = "nested"

NextNested ==
  \/ AssignStart \/ BfsStep \/ FillDefaults
  \/ PropStartOnce \/ PropPersonNested \/ PropScanEnd
  \/ NestedRenderStart \/ NestedRoot \/ NestedChild \/ NestedReturn \/ NestedFinish

SpecNested == InitNested /\ [][NextNested]_vars
\* the synchronous calls run to their end
SpecNestedFair == SpecNested /\ WF_vars(NextNested)

\* fetched documents whose person collection is an array or a map keyed by id
InitLoad ==
  \E n \in 1..NumPeople : \E kc \in 0..(MaxDocSize - 1 - n) : \E ch \in LinkMaps(n, kc) :
   \E sp \in LinkMapsUpTo(n, MaxDocSize - 1 - n - kc) : \E shape \in Shapes :
    /\ impl \in Impls
    /\ docShape = shape
    /\ docPeople = [k \in 1..n |-> k]
    /\ people = <<>>
    /\ children = ch
    /\ parents = ConsistentParents(ch)
    /\ spouses = sp
    /\ generation = NoInputGens
    /\ pc = "fetched"
    /\ queue = <<>>
    /\ visited = {}
    /\ preGen = NoInputGens
    /\ changed = FALSE
    /\ pIdx = 0
    /\ sIdx = 0
    /\ pg = 0
    /\ run = 0
    /\ units = <<>>
    /\ used = {}
    /\ uIdx = 0
    /\ engine = "none"
    /\ mobile = FALSE
    /\ positions = <<>>
    /\ stack = <<>>
    /\ rootIdx = 0
    /\ rootX = 0
    /\ positionOrder = <<>>
    /\ numericIds = FALSE
    /\ cards = <<>>
    /\ connectors = <<>>
    /\ paths = <<>>
    /\ first = NoRun
    /\ outcome = "ok"
    /\ fetches = 1
    /\ treeDataSet = FALSE
    /\ message = "none"
    /\ uiEvents = 0
    /\ renderedNull = FALSE
    /\ rendered = {}
    /\ shown = <<>>
    /\ calls = <<>>
    /\ nRoot = 0
    /\ searchValue = Blank
    /\ currentFilter = "all"
    /\ term = Blank
    /\ docGens = generation

\* loadTree from the parsed document to its end: part_001 goes on to
\* renderTree('') with display units, cards and TreeConnector's paths, the
\* inline script of part_000 to its nested list
NextLoad ==
  \/ LoadDocument
  \/ AssignStart \/ BfsStep \/ FillDefaults
  \/ PropStartOnce \/ PropEnterApp \/ PropSpouseApp \/ PropPersonNested \/ PropScanEnd
  \/ UnitsStart \/ UnitStep \/ RenderCards \/ TreeConnectorRender
  \/ NestedRenderStart \/ NestedRoot \/ NestedChild \/ NestedReturn \/ NestedFinish

SpecLoad == InitLoad /\ [][NextLoad]_vars

\* ---------------------------------------------------------------- reachability
RECURSIVE ReachWithin(_)
\* the persons a root reaches by at most k children links that resolve
ReachWithin(k) ==
  IF k = 0 THEN Range(Roots)
  ELSE LET R == ReachWithin(k - 1)
       IN R \cup {c \in peopleMap : \E q \in R : c \in Range(children[q])}

Reachable == ReachWithin(Len(people))
\* parent -> child edges whose endpoints both resolve
ChildEdges == {e \in peopleMap \X peopleMap : e[2] \in Range(children[e[1]])}

\* ---------------------------------------------------------------- claims: assignGenerations
\* C1: after assignGenerations every person's generation is >= 1 and every
\* root (empty parents list) has generation exactly 1.
C1_GenerationsPositiveRootsOne ==
  pc = "assigned" =>
    /\ \A p \in peopleMap : generation[p] >= 1
    /\ \A p \in Range(Roots) : generation[p] = 1

\* C2: every person reachable from a root gets generation 1 + the length of
\* the shortest children-path from a root.
C2_ShortestDepth ==
  pc = "assigned" =>
    LET within == [k \in 0..NumPeople |-> ReachWithin(k)]
    IN \A p \in within[NumPeople] :
         \E k \in 0..NumPeople :
           /\ p \in within[k]
           /\ k > 0 => p \notin within[k - 1]
           /\ generation[p] = k + 1

\* a person discovered at two different depths: its generation is 2 although
\* a person of generation 2 or more lists it as a child
C2_Witness ==
  /\ pc = "assigned"
  /\ \E e \in ChildEdges :
       /\ e[1] \in Reachable
       /\ generation[e[2]] >= 2
       /\ generation[e[1]] >= generation[e[2]]
       /\ e[1] # e[2]

\* C7 as stated: for every parent -> child edge whose parent is reachable from
\* a root, child.generation >= parent.generation + 1.
C7_ChildAtLeastOneBelow ==
  pc = "assigned" =>
    \A p \in Reachable : \A c \in Range(children[p]) \cap peopleMap :
      generation[c] >= generation[p] + 1

\* C7 amended: for every parent -> child edge whose parent is reachable from a
\* root, child.generation <= parent.generation + 1 (first discovery wins, so a
\* child is never deeper than one band below any of its reachable parents).
C7_ChildAtMostOneBelow ==
  pc = "assigned" =>
    \A p \in Reachable : \A c \in Range(children[p]) \cap peopleMap :
      generation[c] <= generation[p] + 1

\* an edge from a reachable parent to a child that was discovered earlier
C7_Witness ==
  /\ pc = "assigned"
  /\ \E e \in ChildEdges :
       /\ e[1] \in Reachable
       /\ generation[e[2]] < generation[e[1]] + 1
  /\ \E e \in ChildEdges : generation[e[2]] = generation[e[1]] + 1

\* C8: every person the traversal never visited has generation exactly 1,
\* whatever generation the input record carried.
C8_UnvisitedGetOne ==
  pc = "assigned" => \A p \in peopleMap \ visited : generation[p] = 1

\* ---------------------------------------------------------------- claims: propagateSpouseGenerations
\* the spouse entries that resolve: p lists s and both are in the store
SpouseLinks == {e \in peopleMap \X peopleMap : e[2] \in Range(spouses[e[1]])}

\* C3: when propagateSpouseGenerations has returned, every person has the
\* generation of every spouse it lists that resolves, listed back or not.
C3_SpousesShareGeneration ==
  pc = "propagated" => \A e \in SpouseLinks : generation[e[1]] = generation[e[2]]

\* the first call has returned after raising one end of a one-sided spouse entry
C3_Witness ==
  /\ pc = "propagated"
  /\ run = 1
  /\ \E e \in SpouseLinks :
       /\ preGen[e[1]] # preGen[e[2]]
       /\ e[1] \notin Range(spouses[e[2]])

\* C4: propagateSpouseGenerations terminates on every finite dataset: the
\* first call eventually returns.
C4_PropagationTerminates == <>(pc = "propagated")

\* C9: a second call of propagateSpouseGenerations on the records the first
\* call left changes no generation.
C9_SecondRunChangesNothing == [][run = 2 => generation' = generation]_vars

\* the second call has returned, the first one having changed a generation
C9_Witness ==
  /\ pc = "propagated"
  /\ run = 2
  /\ generation # preGen

\* ---------------------------------------------------------------- claims: buildDisplayUnits
\* the slots of the units that person p fills
SlotsOf(p) ==
  {<<k, "p">> : k \in {j \in DOMAIN units : units[j].type = "single" /\ units[j].p = p}}
  \cup {<<k, "a">> : k \in {j \in DOMAIN units : units[j].type = "couple" /\ units[j].a = p}}
  \cup {<<k, "b">> : k \in {j \in DOMAIN units : units[j].type = "couple" /\ units[j].b = p}}

\* C5: every person of the input array appears exactly once across all units
\* (not missing, not in two units, not in both slots of one couple unit).
C5_UnitsPartitionPeople ==
  pc = "built" => \A p \in peopleMap : Cardinality(SlotsOf(p)) = 1

\* a clean mutual exclusive pair: a.spouses is exactly [b] and b.spouses exactly [a]
Mutual(a, b) ==
  /\ a \in peopleMap
  /\ b \in peopleMap
  /\ spouses[a] = <<b>>
  /\ spouses[b] = <<a>>
CoupleEmitted(a, b) ==
  \E k \in DOMAIN units :
    /\ units[k].type = "couple"
    /\ \/ units[k].a = a /\ units[k].b = b
       \/ units[k].a = b /\ units[k].b = a
SingleEmitted(p) ==
  \E k \in DOMAIN units : units[k].type = "single" /\ units[k].p = p

\* C6: a couple unit is emitted for a and b iff a.spouses is exactly [b] and
\* b.spouses is exactly [a], both in the store; every other person (no spouse,
\* several spouses, a spouse not listing exactly them back) is a single unit.
C6_CoupleIffMutualExclusive ==
  pc = "built" =>
    /\ \A a \in peopleMap : \A b \in peopleMap : CoupleEmitted(a, b) <=> Mutual(a, b)
    /\ \A p \in peopleMap : SingleEmitted(p) <=> ~(\E b \in peopleMap : Mutual(p, b))

\* a merged couple next to a person whose only spouse does not list them back
C6_Witness ==
  /\ pc = "built"
  /\ \E a \in peopleMap : \E b \in peopleMap \ {a} : CoupleEmitted(a, b)
  /\ \E p \in peopleMap :
       /\ Len(spouses[p]) = 1
       /\ spouses[p][1] \in peopleMap \ {p}
       /\ SingleEmitted(p)

\* ---------------------------------------------------------------- claims: layout
\* two distinct positioned children of one parent
SiblingPairs ==
  {t \in peopleMap \X (DOMAIN positions) \X (DOMAIN positions) :
     /\ t[2] # t[3]
     /\ t[2] \in Range(children[t[1]])
     /\ t[3] \in Range(children[t[1]])}

\* C10: after a layout run, two distinct children of one parent have
\* non-overlapping horizontal spans [x, x + nodeWidth], also when one of them is
\* a child of the other.
C10_SiblingSpansDisjoint ==
  pc = "laid" =>
    \A t \in SiblingPairs :
      \/ positions[t[2]].x + nodeWidth <= positions[t[3]].x
      \/ positions[t[3]].x + nodeWidth <= positions[t[2]].x

\* the positioned children of p that lie in the band right below p
PlacedBeneath(p) ==
  {c \in Range(children[p]) \cap DOMAIN positions :
     positions[c].y = positions[p].y + nodeHeight + verticalGap}
LeftEdge(S) == CHOOSE v \in {positions[c].x : c \in S} : \A c \in S : v <= positions[c].x
RightEdge(S) ==
  CHOOSE v \in {positions[c].x + nodeWidth : c \in S} : \A c \in S : positions[c].x + nodeWidth <= v

\* C11: after a layout run every positioned person with at least one child placed
\* beneath it is centred over them: parent.x = spanStart + (spanWidth - nodeWidth) / 2,
\* the span running from the left edge of the leftmost to the right edge of the
\* rightmost placed child.
C11_ParentCentred ==
  pc = "laid" =>
    \A p \in DOMAIN positions :
      PlacedBeneath(p) # {} =>
        2 * positions[p].x =
          2 * LeftEdge(PlacedBeneath(p))
            + (RightEdge(PlacedBeneath(p)) - LeftEdge(PlacedBeneath(p)) - nodeWidth)

\* C12: after a layout run over a dataset with assigned and spouse-propagated
\* generations, every person of the dataset has an entry in positions, also a
\* married-in spouse without parents whose generation propagation raised above 1.
C12_EveryPersonPositioned ==
  pc = "laid" => \A p \in peopleMap : p \in DOMAIN positions

\* C13: assignGenerations terminates on every dataset, also when the children
\* edges form a cycle or a self-loop reachable from a root, and during the
\* traversal a visited person stays visited and its generation is never written again.
C13_AssignTerminatesWritesOnce ==
  /\ <>(pc = "assigned")
  /\ [][pc = "bfs" => /\ visited \subseteq visited'
                       /\ \A p \in visited : generation'[p] = generation[p]]_vars

\* a finished traversal of a dataset with a self-loop or a two-cycle reachable from a root
C13_Witness ==
  /\ pc = "assigned"
  /\ \E p \in Reachable : \E q \in peopleMap :
       /\ q \in Range(children[p])
       /\ p \in Range(children[q])
       /\ generation[p] >= 1
       /\ generation[q] >= generation[p]

\* C14: the layout recursion never recurses without bound, also when a person
\* reachable from a generation-1 person lists itself as a child or is its own
\* descendant.
C14_LayoutRecursionBounded ==
  pc # "overflow"

\* ---------------------------------------------------------------- claims: dangling references
\* link lists with the ids that do not resolve in the store deleted
Resolving(links) == [p \in Ids |-> SelectSeqBy(links[p], peopleMap)]

\* the while loop of assignGenerations run to its end over children lists ch
RECURSIVE BfsRun(_, _, _, _)
BfsRun(ch, q, vis, gens) ==
  IF q = <<>> THEN gens
  ELSE LET person == Head(q).person
           gen == Head(q).gen
           kept == SelectSeqBy(ch[person], peopleMap \ (vis \cup {person}))
       IN IF person \in vis
          THEN BfsRun(ch, Tail(q), vis, gens)
          ELSE BfsRun(ch, Tail(q) \o [k \in 1..Len(kept) |-> [person |-> kept[k], gen |-> gen + 1]],
                      vis \cup {person}, [gens EXCEPT ![person] = gen])

\* assignGenerations as a function of the parents and children lists of a
\* dataset of the same people without generation fields
AssignGenerationsOn(pa, ch) ==
  LET roots == SelectSeqBy(people, {p \in peopleMap : Len(pa[p]) = 0})
      traversed == BfsRun(ch, [k \in 1..Len(roots) |-> [person |-> roots[k], gen |-> 1]],
                          {}, NoInputGens)
  IN [p \in Ids |-> IF p \in peopleMap /\ traversed[p] = Undef THEN 1 ELSE traversed[p]]

\* C15: assignGenerations gives each person the generation it gives on the
\* dataset with the unresolved ids deleted from every parents and children list
\* (a person whose only listed parent is absent is treated like a root).
C15_DanglingLinksIgnored ==
  pc = "assigned" => generation = AssignGenerationsOn(Resolving(parents), Resolving(children))

\* the loop of buildDisplayUnits from index k on, over spouse lists sp
RECURSIVE UnitsRun(_, _, _, _)
UnitsRun(sp, k, usedIds, acc) ==
  IF k > Len(people) THEN acc
  ELSE LET p == people[k]
           s == sp[p][1]
       IN IF p \in usedIds
          THEN UnitsRun(sp, k + 1, usedIds, acc)
          ELSE IF /\ Len(sp[p]) = 1
                  /\ s \in peopleMap
                  /\ s \notin usedIds
                  /\ Len(sp[s]) = 1
                  /\ sp[s][1] = p
          THEN UnitsRun(sp, k + 1, usedIds \cup {p, s},
                        Append(acc, [type |-> "couple", a |-> p, b |-> s,
                                     generation |-> Max(OrOne(generation[p]), OrOne(generation[s]))]))
          ELSE UnitsRun(sp, k + 1, usedIds \cup {p},
                        Append(acc, [type |-> "single", p |-> p,
                                     generation |-> OrOne(generation[p])]))

\* buildDisplayUnits as a function of the spouse lists
BuildDisplayUnitsOn(sp) == UnitsRun(sp, 1, {}, <<>>)

\* C16: buildDisplayUnits returns the units it returns on the dataset with the
\* unresolved ids deleted from every spouses list (a person listing one present
\* mutual-exclusive partner plus one absent id is still merged with the partner).
C16_DanglingSpousesIgnored ==
  pc = "built" => units = BuildDisplayUnitsOn(Resolving(spouses))

\* the people array rearranged in every possible way
Rearranged ==
  {[k \in 1..Len(people) |-> people[f[k]]] : f \in Permutations(1..Len(people))}

\* a unit with the order inside a couple forgotten
Unordered(u) ==
  IF u.type = "couple" THEN [type |-> "couple", members |-> {u.a, u.b}, generation |-> u.generation]
  ELSE [type |-> "single", members |-> {u.p}, generation |-> u.generation]
UnitSet(us) == {Unordered(us[k]) : k \in DOMAIN us}

\* C27: for every permutation of the people array buildDisplayUnits yields the
\* same set of units: the same couples as unordered pairs and the same singles.
C27_UnitsIndependentOfOrder ==
  pc = "built" =>
    \A order \in Rearranged : UnitSet(BuildDisplayUnitsIn(order)) = UnitSet(units)

\* the three-way marriage: a lists b and c, each of whom lists a alone; the
\* units are built with a in any place of the array and all three are singles
C27_Witness ==
  /\ pc = "built"
  /\ Len(people) = 3
  /\ \E a \in peopleMap : \E b \in peopleMap \ {a} : \E c \in peopleMap \ {a, b} :
       /\ spouses[a] = <<b, c>>
       /\ spouses[b] = <<a>>
       /\ spouses[c] = <<a>>
       /\ SingleEmitted(a) /\ SingleEmitted(b) /\ SingleEmitted(c)

\* ---------------------------------------------------------------- claims: connectors
InUnit(u, p) == IF u.type = "couple" THEN p \in {u.a, u.b} ELSE p = u.p
\* the data-person-id of the card that shows person p
CardOf(p) == CardId(units[CHOOSE k \in DOMAIN units : InUnit(units[k], p)])
\* the parent-child paths drawn from card `from` to card `to`
LinesBetween(from, to) ==
  {j \in DOMAIN connectors :
     /\ connectors[j].type = "parent-child"
     /\ connectors[j].parent = from
     /\ connectors[j].child = to}

\* C17: for a couple unit {A, B} and a displayed child K whose parents list
\* names A, or B, or both, exactly one parent-child connector is drawn between
\* the couple's card and K's card, whichever partner K lists and whichever
\* partner comes first in the input.
C17_OneConnectorPerCoupleChild ==
  pc = "connected" =>
    \A k \in DOMAIN units :
      (units[k].type = "couple" /\ CardId(units[k]) \in Range(cards)) =>
        \A child \in peopleMap \ {units[k].a, units[k].b} :
          (/\ CardOf(child) \in Range(cards)
           /\ Range(parents[child]) \cap {units[k].a, units[k].b} # {}) =>
            Cardinality(LinesBetween(CardId(units[k]), CardOf(child))) = 1

\* the paths the layout engine has drawn from p to c
PathsBetween(p, c) ==
  {j \in DOMAIN paths : paths[j].parent = p /\ paths[j].child = c}

\* the spouse paths drawn between the cards of a and b, in either direction
SpouseLinesBetween(a, b) ==
  {j \in DOMAIN connectors :
     /\ connectors[j].type = "spouse"
     /\ {connectors[j].a, connectors[j].b} = {a, b}}

\* C18: drawConnections emits exactly one connector for each (parent, child)
\* pair in which the parent lists the child and both are positioned, also when
\* the child id is repeated in the list, and none for other pairs;
\* drawSpouseConnectors emits exactly one connector for each unordered pair of
\* carded persons joined by a spouse link, listed by one side or by both.
C18_EachRelationshipDrawnOnce ==
  /\ pc = "drawn" =>
       \A p \in DOMAIN positions : \A c \in DOMAIN positions :
         Cardinality(PathsBetween(p, c)) = IF c \in Range(children[p]) THEN 1 ELSE 0
  /\ pc = "connected" =>
       \A a \in Range(cards) : \A b \in Range(cards) :
         Cardinality(SpouseLinesBetween(a, b)) =
           IF b \in Range(spouses[a]) \/ a \in Range(spouses[b]) THEN 1 ELSE 0

\* ---------------------------------------------------------------- claims: determinism
\* C19: two runs of the pipeline on identical input (same document, same layout
\* engine and window width) produce identical generations for every person,
\* identical display units in identical order and identical coordinates.
C19_RunsAgree ==
  first # NoRun =>
    /\ (pc = "propagated" /\ run = 1) => generation = first.generation
    /\ pc \in {"connected", "layout", "laid", "drawn"} =>
         /\ generation = first.generation
         /\ units = first.units
    /\ (pc = "drawn" /\ first.stage = "drawn" /\ engine = first.engine /\ mobile = first.mobile) =>
         positions = first.positions

\* a second layout run finished after a first one that placed a child and in
\* which propagation raised a generation
C19_Witness ==
  /\ first # NoRun
  /\ pc = "drawn"
  /\ first.stage = "drawn"
  /\ engine = first.engine
  /\ mobile = first.mobile
  /\ \E p \in DOMAIN positions : positions[p].y > 0
  /\ generation # preGen

\* ---------------------------------------------------------------- claims: loader
\* C20: whether the person collection of the document is an array or a map
\* keyed by id, after normalizeData and indexPeople the id-indexed store
\* contains every person of the document.
C20_StoreHoldsEveryPerson ==
  pc # "fetched" => \A p \in Range(docPeople) : p \in peopleMap

\* ---------------------------------------------------------------- claims: propagation writes
\* C22: while propagateSpouseGenerations runs, no assignment lowers a
\* generation: every write stores a value greater than the one it replaces.
C22_PropagationNeverLowers ==
  [][pc = "prop" => \A p \in peopleMap : generation'[p] >= generation[p]]_vars

RECURSIVE SpouseComponentWithin(_, _)
\* the persons joined to p by at most k spouse links, a link joining two stored
\* persons whenever either lists the other
SpouseComponentWithin(p, k) ==
  IF k = 0 THEN {p}
  ELSE LET C == SpouseComponentWithin(p, k - 1)
       IN C \cup {q \in peopleMap : \E c \in C : <<c, q>> \in SpouseLinks \/ <<q, c>> \in SpouseLinks}

SpouseComponent(p) == SpouseComponentWithin(p, Len(people))
\* the largest generation that assignGenerations left in a set of persons
MaxPreGen(S) == CHOOSE g \in {preGen[q] : q \in S} : \A q \in S : preGen[q] <= g

\* C23: when propagateSpouseGenerations has returned, every person's generation
\* is the maximum pre-propagation generation over its connected component of
\* the spouse graph; a person with no resolving spouse link keeps its own.
C23_ComponentMaximum ==
  pc = "propagated" =>
    \A p \in peopleMap : generation[p] = MaxPreGen(SpouseComponent(p))

\* ---------------------------------------------------------------- claims: positions
\* C24: within one layout run a person's position is written at most once: a
\* person that already has a position keeps it whenever it is met again.
C24_PositionWrittenOnce ==
  [][pc = "layout" =>
       \A p \in DOMAIN positions : p \in DOMAIN positions' /\ positions'[p] = positions[p]]_vars

\* C25: every positioned person's y is (generation - 1) * (nodeHeight + verticalGap).
C25_RowIsGeneration ==
  pc = "laid" =>
    \A p \in DOMAIN positions :
      positions[p].y = (OrOne(generation[p]) - 1) * (nodeHeight + verticalGap)

\* the boxes of p and q lie in the same row and their x-intervals intersect
BoxesIntersect(p, q) ==
  /\ positions[p].y = positions[q].y
  /\ positions[p].x < positions[q].x + nodeWidth
  /\ positions[q].x < positions[p].x + nodeWidth

\* C26: no two distinct positioned persons have intersecting boxes.
C26_NoOverlap ==
  pc = "laid" =>
    \A p, q \in DOMAIN positions : p # q => ~BoxesIntersect(p, q)

\* C29: every computed position has x >= 0 and y >= 0.
C29_NonNegativeCoordinates ==
  pc = "laid" =>
    \A p \in DOMAIN positions : positions[p].x >= 0 /\ positions[p].y >= 0

\* ---------------------------------------------------------------- claims: fetch and UI events
\* C21: when the fetch fails (rejected, non-2xx status or unparsable body)
\* loadTree ends in a terminal error state: treeData and peopleMap are as before
\* the attempt, no generation is assigned, nothing of the document is rendered,
\* the error message is shown and no further fetch is issued.
C21_FailedFetchIsTerminal ==
  /\ pc = "failed" =>
       /\ outcome # "ok"
       /\ ~treeDataSet
       /\ people = <<>>
       /\ generation = NoInputGens
       /\ message = "error"
       /\ cards = <<>>
       /\ fetches = 1
  /\ outcome # "ok" => pc \in {"fetching", "parsing", "failed"}

\* a failed load after which a UI event has been handled
C21_Witness ==
  /\ pc = "failed"
  /\ outcome \in {"status", "unparsable"}
  /\ message = "error"
  /\ uiEvents > 0

\* C28: renderTree is never entered while treeData is null, whatever the
\* interleaving of UI events with the asynchronous loadTree.
C28_RenderOnlyWhenLoaded ==
  ~renderedNull

\* ---------------------------------------------------------------- claims: nested-list renderer
\* the divs created for person p
DivsOf(p) == {k \in DOMAIN shown : shown[k].person = p}

\* C30: the nested renderer creates at most one div per person, as main person
\* or as a spouse in a capsule, whatever the dataset (cyclic children, a person
\* its own spouse, a person both spouse and child), and renderTree returns.
C30_RenderedOnceAndReturns ==
  /\ [](\A p \in Ids : Cardinality(DivsOf(p)) <= 1)
  /\ <>(pc = "nested")

\* renderTree has returned on a dataset with a children cycle, in which a
\* person shown as a spouse is also a child of a person shown
C30_Witness ==
  /\ pc = "nested"
  /\ \E p, q \in peopleMap : p # q /\ p \in Range(children[q]) /\ q \in Range(children[p])
                             /\ DivsOf(p) # {} /\ DivsOf(q) # {}
  /\ \E k \in DOMAIN shown : \E q \in peopleMap :
       /\ shown[k].as = "spouse"
       /\ shown[k].person \in Range(children[q])
       /\ DivsOf(q) # {}

====
